---------------------------- MODULE Spec2Model ----------------------------
(***************************************************************************)
(* Shape-level model of src/lib/models/ynet.py: the Y-net encoder, its two *)
(* decoders, the top-level YNetTorch module and the soft-argmax reduction  *)
(* on an already normalised map.                                           *)
(*                                                                         *)
(* A tensor is modelled by its shape <<batch, channels, height, width>>;   *)
(* a layer by the numbers it was constructed with.  A layer applied to a   *)
(* tensor it cannot take raises, and the exception ends the forward pass.  *)
(* For the soft-argmax the values of the map are modelled too, as integer  *)
(* units of probability mass.                                              *)
(***************************************************************************)
EXTENDS Integers, Sequences, FiniteSets, TLC

VARIABLES
    pc,        \* "new", "built", "ctor_error", "encoded", "enc_error", "goal", "traj", "soft"
    cfg,       \* the arguments YNetTorch was constructed with
    net,       \* the constructed module: backbone, encoder, goal and trajectory decoder
    err,       \* the exception the constructor or the encoder raised
    x,         \* shape of the tensor given to pred_features
    features,  \* the list pred_features returned
    cond,      \* conditioning channels the caller added to each entry for pred_traj
    res,       \* what pred_goal / pred_traj returned or raised
    smap,      \* the map given to softargmax_on_softmax_map
    coords     \* the tensor it returned

vars == <<pc, cfg, net, err, x, features, cond, res, smap, coords>>

---------------------------------------------------------------------------
(* Bounds of the model *)

\* longest encoder_channels / decoder_channels list tried
MaxStages == 3
\* largest input height and width tried on the small configurations
MaxDim == 8
\* largest input height and width tried on the get_ynet() configuration
MaxInput == 66
\* largest height and width of a soft-argmax map
MaxGrid == 3
\* largest channel count of a soft-argmax map
MaxMapChannels == 2
\* probability 1 is MassUnits units of mass
MassUnits == 2

\* channel counts tried in encoder_channels / decoder_channels; at least 2,
\* so that every upsample convolution (in // 2) has an output channel
ChannelCounts == {2, 3}
\* obs_len, pred_len, semantic_classes and waypoints tried by the constructor
ObsLens == {1, 2}
PredLens == {1, 2}
SemanticChoices == {0, 1}
WaypointCounts == {1, 2}
\* conditioning channels a caller appends to every pyramid entry
Conditionings == {0} \cup WaypointCounts
\* batch sizes
Batches == {1, 2}

Min(a, b) == IF a <= b THEN a ELSE b

ChannelLists == UNION {[1..n -> ChannelCounts] : n \in 0..MaxStages}

---------------------------------------------------------------------------
(* Python list helpers *)

\* the list left in its order
ReverseNot(s) == s

\* lst[::-1]
Reverse(s) == [i \in 1..Len(s) |-> s[Len(s) + 1 - i]]

\* lst[:-1]
DropLast(s) == IF Len(s) = 0 THEN <<>> ELSE SubSeq(s, 1, Len(s) - 1)

\* lst[1:]
Tail1(s) == IF Len(s) = 0 THEN <<>> ELSE SubSeq(s, 2, Len(s))

\* number of tuples zip(a, b) yields: it stops at the shorter list
ZipLen(a, b) == Min(Len(a), Len(b))

---------------------------------------------------------------------------
(* Layers.  Every layer is a record with the same fields. *)

\* nn.Conv2d(in, out, kernel_size=(3,3), stride=(1,1), padding=(1,1))
Conv3x3(cin, cout) == [type |-> "conv", in |-> cin, out |-> cout, k |-> 3, s |-> 1, p |-> 1]

\* a 1x1 convolution that keeps the channel count
Conv1x1Keep(cin, cout) == [type |-> "conv", in |-> cin, out |-> cin, k |-> 1, s |-> 1, p |-> 0]

\* nn.Conv2d(in, out, kernel_size=1, stride=1, padding=0)
Conv1x1(cin, cout) == [type |-> "conv", in |-> cin, out |-> cout, k |-> 1, s |-> 1, p |-> 0]

\* nn.ReLU(inplace=True)
ReLU == [type |-> "relu", in |-> 0, out |-> 0, k |-> 0, s |-> 0, p |-> 0]

\* nn.MaxPool2d(kernel_size=2, stride=2, padding=0, dilation=1, ceil_mode=False)
MaxPool2d == [type |-> "pool", in |-> 0, out |-> 0, k |-> 2, s |-> 2, p |-> 0]

\* a pool that rounds up (ceil_mode=True)
WindowOutCeil(n, k, s, p) ==
    IF n + 2 * p < k THEN 0 ELSE ((n + 2 * p - k) + (s - 1)) \div s + 1

\* output length of a sliding window along one axis, rounding down
WindowOut(n, k, s, p) ==
    IF n + 2 * p < k THEN 0 ELSE (n + 2 * p - k) \div s + 1

Ok(shape) == [ok |-> TRUE, shape |-> shape, err |-> "none"]
Raise(e)  == [ok |-> FALSE, shape |-> <<0, 0, 0, 0>>, err |-> e]

\* one layer applied to a tensor of shape t
ApplyLayer(l, t) ==
    IF l.type = "relu" THEN Ok(t)
    ELSE LET h == WindowOut(t[3], l.k, l.s, l.p)
             w == WindowOut(t[4], l.k, l.s, l.p)
         IN  IF l.type = "conv"
             THEN IF t[2] # l.in THEN Raise("conv_channels")
                  ELSE IF h < 1 \/ w < 1 THEN Raise("conv_size")
                  ELSE Ok(<<t[1], l.out, h, w>>)
             ELSE IF h < 1 \/ w < 1 THEN Raise("pool_size")
                  ELSE Ok(<<t[1], t[2], h, w>>)

\* nn.Sequential.forward: the layers in order; an exception ends it
RECURSIVE ApplySequential(_, _)
ApplySequential(layers, t) ==
    IF Len(layers) = 0 THEN Ok(t)
    ELSE LET r == ApplyLayer(Head(layers), t)
         IN  IF r.ok THEN ApplySequential(Tail(layers), r.shape) ELSE r

\* an interpolation that keeps the size
InterpolateSame(t) == t

\* F.interpolate(x, scale_factor=2, mode="bilinear", align_corners=False)
Interpolate2(t) == <<t[1], t[2], 2 * t[3], 2 * t[4]>>

\* a concatenation that crops both operands to the smaller spatial size
CatCrop(a, b) == Ok(<<a[1], a[2] + b[2], Min(a[3], b[3]), Min(a[4], b[4])>>)

\* torch.cat([a, b], dim=1): every other dimension must agree
Cat(a, b) ==
    IF a[1] # b[1] \/ a[3] # b[3] \/ a[4] # b[4] THEN Raise("cat_size")
    ELSE Ok(<<a[1], a[2] + b[2], a[3], a[4]>>)

---------------------------------------------------------------------------
(* YNetEncoder *)

NoStages == <<>>

\* YNetEncoder.__init__(in_channels, channels); channels[0] of an empty list
\* raises IndexError
YNetEncoder_init(in_channels, channels) ==
    IF Len(channels) = 0
    THEN [ok |-> FALSE, err |-> "IndexError", stages |-> NoStages]
    ELSE LET first == << <<Conv3x3(in_channels, channels[1]), ReLU>> >>
             middle == [i \in 1..(Len(channels) - 1) |->
                          <<MaxPool2d,
                            Conv3x3(channels[i], channels[i + 1]), ReLU,
                            Conv3x3(channels[i + 1], channels[i + 1]), ReLU>>]
             last == << <<MaxPool2d>> >>
         IN  [ok |-> TRUE, err |-> "none", stages |-> first \o middle \o last]

\* YNetEncoder.forward(x): every stage's output is appended to the list
RECURSIVE EncoderLoop(_, _, _)
EncoderLoop(stages, t, acc) ==
    IF Len(stages) = 0 THEN [ok |-> TRUE, err |-> "none", features |-> acc]
    ELSE LET r == ApplySequential(Head(stages), t)
         IN  IF r.ok THEN EncoderLoop(Tail(stages), r.shape, Append(acc, r.shape))
             ELSE [ok |-> FALSE, err |-> r.err, features |-> <<>>]

YNetEncoder_forward(stages, t) == EncoderLoop(stages, t, <<>>)

---------------------------------------------------------------------------
(* YNetDecoder *)

NoDecoder ==
    [center |-> <<>>, upsample_conv |-> <<>>, decoder |-> <<>>, predictor |-> ReLU]

\* num_channel // 2
UpsampleChannelsOut(n) == n \div 2

\* the conditioning channels are forgotten
AddConditioningNone(channels, traj) == channels

\* if traj: encoder_channels = [channel + traj for channel in encoder_channels]
AddConditioning(channels, traj) ==
    IF traj # 0 THEN [i \in 1..Len(channels) |-> channels[i] + traj] ELSE channels

\* a constructor that also rejects len(decoder_channels) != len(encoder_channels) - 1
DecoderLengthChecked(encoder_channels, decoder_channels) ==
    \/ Len(encoder_channels) = 0
    \/ Len(decoder_channels) = 0
    \/ Len(decoder_channels) # Len(encoder_channels) - 1

\* encoder_channels[0] and decoder_channels[-1] raise IndexError on an empty
\* list; nothing else in the constructor looks at the lengths
DecoderIndexError(encoder_channels, decoder_channels) ==
    Len(encoder_channels) = 0 \/ Len(decoder_channels) = 0

\* YNetDecoder.__init__(encoder_channels, decoder_channels, output_len, traj);
\* traj=False is 0
YNetDecoder_init(encoder_channels, decoder_channels, output_len, traj) ==
    IF DecoderIndexError(encoder_channels, decoder_channels)
    THEN [ok |-> FALSE, err |-> "IndexError", dec |-> NoDecoder]
    ELSE LET enc == Reverse(AddConditioning(encoder_channels, traj))
             center_channels == enc[1]
             upsample_channels_in == <<center_channels * 2>> \o DropLast(decoder_channels)
             upsample_channels_out ==
                 [i \in 1..Len(upsample_channels_in) |->
                    UpsampleChannelsOut(upsample_channels_in[i])]
             in_channels ==
                 [i \in 1..ZipLen(enc, upsample_channels_out) |->
                    enc[i] + upsample_channels_out[i]]
         IN  [ok |-> TRUE, err |-> "none",
              dec |->
                [center |-> <<Conv3x3(center_channels, center_channels * 2), ReLU,
                              Conv3x3(center_channels * 2, center_channels * 2), ReLU>>,
                 upsample_conv |->
                   [i \in 1..ZipLen(upsample_channels_in, upsample_channels_out) |->
                      Conv3x3(upsample_channels_in[i], upsample_channels_out[i])],
                 decoder |->
                   [i \in 1..ZipLen(in_channels, decoder_channels) |->
                      <<Conv3x3(in_channels[i], decoder_channels[i]), ReLU,
                        Conv3x3(decoder_channels[i], decoder_channels[i]), ReLU>>],
                 predictor |->
                   Conv1x1(decoder_channels[Len(decoder_channels)], output_len)]]

NoResult ==
    [ok |-> FALSE, shape |-> <<0, 0, 0, 0>>, err |-> "none", where |-> "none",
     at |-> 0, used |-> <<>>]

Fail(r, where, at, used) ==
    [ok |-> FALSE, shape |-> <<0, 0, 0, 0>>, err |-> r.err, where |-> where,
     at |-> at, used |-> used]

\* The loop of YNetDecoder.forward over zip(features[1:], self.decoder,
\* self.upsample_conv), from iteration i (1-based) with running tensor t.
\* fr is the reversed feature list; used lists the pyramid entries (by their
\* index in the encoder's list, from 0) concatenated so far.
RECURSIVE DecoderLoop(_, _, _, _, _)
DecoderLoop(d, fr, i, t, used) ==
    IF i > Min(Len(Tail1(fr)), Min(Len(d.decoder), Len(d.upsample_conv)))
    THEN LET p == ApplyLayer(d.predictor, t)
         IN  IF p.ok
             THEN [ok |-> TRUE, shape |-> p.shape, err |-> "none", where |-> "none",
                   at |-> 0, used |-> used]
             ELSE Fail(p, "predictor", 0, used)
    ELSE LET feature == Tail1(fr)[i]
             up == ApplyLayer(d.upsample_conv[i], Interpolate2(t))
         IN  IF ~up.ok THEN Fail(up, "upsample_conv", i, used)
             ELSE LET c == Cat(up.shape, feature)
                  IN  IF ~c.ok THEN Fail(c, "cat", i, used)
                      ELSE LET m == ApplySequential(d.decoder[i], c.shape)
                               used2 == Append(used, Len(fr) - 1 - i)
                           IN  IF ~m.ok THEN Fail(m, "decoder", i, used2)
                               ELSE DecoderLoop(d, fr, i + 1, m.shape, used2)

\* YNetDecoder.forward(features)
YNetDecoder_forward(d, feats) ==
    LET fr == Reverse(feats)
    IN  IF Len(fr) = 0 THEN Fail(Raise("IndexError"), "center", 0, <<>>)
        ELSE LET c == ApplySequential(d.center, fr[1])
             IN  IF ~c.ok THEN Fail(c, "center", 0, <<>>)
                 ELSE DecoderLoop(d, fr, 1, c.shape, <<>>)

---------------------------------------------------------------------------
(* YNetTorch *)

\* semantic_classes = 16 when the backbone's features are used
FeatureDim == 16

NoNet ==
    [semantic_segmentation |-> "none", encoder |-> NoStages,
     goal_decoder |-> NoDecoder, traj_decoder |-> NoDecoder]

NoCfg ==
    [obs_len |-> 0, pred_len |-> 0, fp |-> FALSE, use_features_only |-> FALSE,
     semantic_classes |-> 0, encoder_channels |-> <<>>, decoder_channels |-> <<>>,
     waypoints |-> 0]

\* an encoder built for the observed heatmaps alone
EncoderInChannelsObsOnly(semantic_classes, obs_len) == obs_len

\* in_channels=semantic_classes + obs_len
EncoderInChannels(semantic_classes, obs_len) == semantic_classes + obs_len

\* YNetTorch.__init__; a.fp is "segmentation_model_fp is not None", and the
\* backbone torch.load returns is opaque
YNetTorch_init(a) ==
    LET semantic_segmentation ==
            IF a.fp THEN (IF a.use_features_only THEN "LoadedFeatures" ELSE "Loaded")
            ELSE "Identity"
        semantic_classes ==
            IF a.fp /\ a.use_features_only THEN FeatureDim ELSE a.semantic_classes
        e == YNetEncoder_init(EncoderInChannels(semantic_classes, a.obs_len),
                              a.encoder_channels)
        g == YNetDecoder_init(a.encoder_channels, a.decoder_channels, a.pred_len, 0)
        t == YNetDecoder_init(a.encoder_channels, a.decoder_channels, a.pred_len,
                              a.waypoints)
    IN  IF e.ok /\ g.ok /\ t.ok
        THEN [ok |-> TRUE, err |-> "none",
              net |-> [semantic_segmentation |-> semantic_segmentation,
                       encoder |-> e.stages, goal_decoder |-> g.dec,
                       traj_decoder |-> t.dec]]
        ELSE [ok |-> FALSE,
              err |-> IF ~e.ok THEN e.err ELSE IF ~g.ok THEN g.err ELSE t.err,
              net |-> NoNet]

\* the params of get_ynet and its defaults obs_len=8, pred_len=12
GetYnetParams ==
    [obs_len |-> 8, pred_len |-> 12, fp |-> FALSE, use_features_only |-> FALSE,
     semantic_classes |-> 0,
     encoder_channels |-> <<32, 32, 64, 64, 64>>,
     decoder_channels |-> <<64, 64, 64, 32, 32>>,
     waypoints |-> Len(<<11>>)]

---------------------------------------------------------------------------
(* Soft-argmax on a normalised map.  A tensor with values is a record of  *)
(* its shape and its nested sequences v[b][c][i][j]; grid coordinates      *)
(* count from 0.                                                           *)

\* create_meshgrid(x, normalized_coordinates=False) of lib.models.softargmax:
\* two H x W grids, each cell holding its own row index (first grid) and
\* column index (second grid)
create_meshgrid(shape) ==
    << [i \in 1..shape[3] |-> [j \in 1..shape[4] |-> i - 1]],
       [i \in 1..shape[3] |-> [j \in 1..shape[4] |-> j - 1]] >>

\* the grids taken in the other order
MeshUnpackSwapped(g) == [pos_y |-> g[2], pos_x |-> g[1]]

\* pos_y, pos_x = create_meshgrid(...)
MeshUnpack(g) == [pos_y |-> g[1], pos_x |-> g[2]]

\* grid.reshape(-1) and the last two axes of x.flatten(2): rows one after another
RECURSIVE FlattenRows(_)
FlattenRows(rows) ==
    IF Len(rows) = 0 THEN <<>> ELSE Head(rows) \o FlattenRows(Tail(rows))

\* shape of x.flatten(2)
Flatten2Shape(shape) == <<shape[1], shape[2], shape[3] * shape[4]>>

\* shape of pos * x: the vector broadcasts along the last axis
BroadcastShape(n, shape) == shape

\* a sum that drops the axis it sums over
SumLastShape(shape) == DropLast(shape)

\* shape of torch.sum(t, dim=-1, keepdim=True)
SumKeepdimShape(shape) == Append(DropLast(shape), 1)

\* shape of torch.cat([a, b], dim=-1)
CatLastShape(a, b) == Append(DropLast(a), a[Len(a)] + b[Len(b)])

RECURSIVE Dot(_, _)
Dot(a, b) == IF Len(a) = 0 THEN 0 ELSE Head(a) * Head(b) + Dot(Tail(a), Tail(b))

\* YNetTorch.softargmax_on_softmax_map(x)
softargmax_on_softmax_map(m) ==
    LET g == MeshUnpack(create_meshgrid(m.shape))
        pos_x == FlattenRows(g.pos_x)
        pos_y == FlattenRows(g.pos_y)
        fshape == Flatten2Shape(m.shape)
        flat == [b \in 1..m.shape[1] |-> [c \in 1..m.shape[2] |-> FlattenRows(m.v[b][c])]]
        estimated_x == [b \in 1..m.shape[1] |-> [c \in 1..m.shape[2] |-> <<Dot(pos_x, flat[b][c])>>]]
        estimated_y == [b \in 1..m.shape[1] |-> [c \in 1..m.shape[2] |-> <<Dot(pos_y, flat[b][c])>>]]
        xshape == SumKeepdimShape(BroadcastShape(Len(pos_x), fshape))
        yshape == SumKeepdimShape(BroadcastShape(Len(pos_y), fshape))
    IN  [shape |-> CatLastShape(xshape, yshape),
         v |-> [b \in 1..m.shape[1] |-> [c \in 1..m.shape[2] |->
                  estimated_x[b][c] \o estimated_y[b][c]]]]

NoMap == [shape |-> <<>>, v |-> <<>>]

\* A channel with mass m at cell k1 and MassUnits - m at cell k2 of an
\* h x w grid (cells numbered row by row from 0)
TwoPoint(h, w, k1, k2, m) ==
    [i \in 1..h |-> [j \in 1..w |->
        (IF (i - 1) * w + (j - 1) = k1 THEN m ELSE 0)
      + (IF (i - 1) * w + (j - 1) = k2 THEN MassUnits - m ELSE 0)]]

\* The maps tried: every channel of every batch element holds a two-point
\* distribution, moved on by one cell from one channel to the next
SoftMap(b, c, h, w, k1, k2, m) ==
    [shape |-> <<b, c, h, w>>,
     v |-> [bi \in 1..b |-> [ci \in 1..c |->
              TwoPoint(h, w, (k1 + (bi - 1) * c + (ci - 1)) % (h * w),
                             (k2 + (bi - 1) * c + (ci - 1)) % (h * w), m)]]]

---------------------------------------------------------------------------
(* Operations *)

\* the caller of pred_traj appends k conditioning channels (the goal and
\* waypoint heatmaps, resampled) to every entry of the pyramid
Augment(feats, k) ==
    [i \in 1..Len(feats) |-> <<feats[i][1], feats[i][2] + k, feats[i][3], feats[i][4]>>]

Init ==
    /\ pc = "new"
    /\ cfg = NoCfg
    /\ net = NoNet
    /\ err = "none"
    /\ x = <<>>
    /\ features = <<>>
    /\ cond = 0
    /\ res = NoResult
    /\ smap = NoMap
    /\ coords = NoMap

\* model = YNetTorch(...)
Construct(a) ==
    /\ pc = "new"
    /\ \E r \in {YNetTorch_init(a)} :
           /\ pc' = IF r.ok THEN "built" ELSE "ctor_error"
           /\ net' = r.net
           /\ err' = r.err
    /\ cfg' = a
    /\ UNCHANGED <<x, features, cond, res, smap, coords>>

\* features = model.pred_features(x)
PredFeatures(t) ==
    /\ pc = "built"
    /\ \E r \in {YNetEncoder_forward(net.encoder, t)} :
           /\ pc' = IF r.ok THEN "encoded" ELSE "enc_error"
           /\ features' = r.features
           /\ err' = r.err
    /\ x' = t
    /\ UNCHANGED <<cfg, net, cond, res, smap, coords>>

\* model.pred_goal(features)
PredGoal ==
    /\ pc = "encoded"
    /\ res' = YNetDecoder_forward(net.goal_decoder, features)
    /\ pc' = "goal"
    /\ UNCHANGED <<cfg, net, err, x, features, cond, smap, coords>>

\* model.pred_traj(features with k conditioning channels appended to each)
PredTraj(k) ==
    /\ pc = "encoded"
    /\ res' = YNetDecoder_forward(net.traj_decoder, Augment(features, k))
    /\ cond' = k
    /\ pc' = "traj"
    /\ UNCHANGED <<cfg, net, err, x, features, smap, coords>>

\* model.softargmax_on_softmax_map(m)
SoftargmaxOnSoftmaxMap(m) ==
    /\ pc = "built"
    /\ smap' = m
    /\ coords' = softargmax_on_softmax_map(m)
    /\ pc' = "soft"
    /\ UNCHANGED <<cfg, net, err, x, features, cond, res>>

\* YNetTorch(obs_len, pred_len, encoder_channels=..., decoder_channels=...,
\* waypoints=...), the backbone arguments left at their defaults
DefaultArgs(obs, pred, enc, dec, way) ==
    [obs_len |-> obs, pred_len |-> pred, fp |-> FALSE, use_features_only |-> FALSE,
     semantic_classes |-> 0, encoder_channels |-> enc, decoder_channels |-> dec,
     waypoints |-> way]

ConstructDefault ==
    /\ pc = "new"
    /\ \E enc \in ChannelLists, dec \in ChannelLists, pred \in PredLens, way \in WaypointCounts :
          Construct(DefaultArgs(1, pred, enc, dec, way))

\* the encoder input: the observed heatmaps and the semantic channels
InputShape(b, h, w) ==
    <<b, (IF cfg.fp /\ cfg.use_features_only THEN FeatureDim ELSE cfg.semantic_classes)
         + cfg.obs_len, h, w>>

Forward(maxdim) ==
    \/ /\ pc = "built"
       /\ \E b \in Batches, h \in 1..maxdim, w \in 1..maxdim :
            PredFeatures(InputShape(b, h, w))
    \/ PredGoal
    \/ \E k \in Conditionings : PredTraj(k)

Next == ConstructDefault \/ Forward(MaxDim)

Spec == Init /\ [][Next]_vars

\* every argument of the constructor varied; no forward pass
ConstructAny ==
    /\ pc = "new"
    /\ \E enc \in ChannelLists, dec \in ChannelLists, obs \in ObsLens, pred \in PredLens,
          way \in WaypointCounts, sem \in SemanticChoices, fp \in BOOLEAN, feat \in BOOLEAN :
          Construct([obs_len |-> obs, pred_len |-> pred, fp |-> fp,
                     use_features_only |-> feat, semantic_classes |-> sem,
                     encoder_channels |-> enc, decoder_channels |-> dec, waypoints |-> way])

NextCtor == ConstructAny

SpecCtor == Init /\ [][NextCtor]_vars

\* the state after model = get_ynet()
InitYnet ==
    /\ pc = "built"
    /\ cfg = GetYnetParams
    /\ net = YNetTorch_init(GetYnetParams).net
    /\ err = "none"
    /\ x = <<>>
    /\ features = <<>>
    /\ cond = 0
    /\ res = NoResult
    /\ smap = NoMap
    /\ coords = NoMap

SoftInputs ==
    /\ pc = "built"
    /\ \E b \in Batches, c \in 1..MaxMapChannels, h \in 1..MaxGrid, w \in 1..MaxGrid :
         \E k1 \in 0..(h * w - 1), k2 \in 0..(h * w - 1), m \in 0..MassUnits :
           SoftargmaxOnSoftmaxMap(SoftMap(b, c, h, w, k1, k2, m))

NextYnet == Forward(MaxInput) \/ SoftInputs

SpecYnet == InitYnet /\ [][NextYnet]_vars

---------------------------------------------------------------------------
(* Properties *)

NEnc == Len(cfg.encoder_channels)
NDec == Len(cfg.decoder_channels)

\* height and width of a tensor
HW(t) == <<t[3], t[4]>>

\* pred_features was called / returned a pyramid / a decoder was run on it
HasInput == pc \in {"encoded", "enc_error", "goal", "traj"}
Encoded == pc \in {"encoded", "goal", "traj"}
Decoded == pc \in {"goal", "traj"}

\* the decoder was given the pyramid it is built for: the goal decoder the
\* encoder's, the trajectory decoder one with waypoints channels more per entry
Conditioned == pc = "goal" \/ (pc = "traj" /\ cond = cfg.waypoints)

\* the i-th skip concatenation (from 1, coarsest first) joins the upsampled
\* tensor, twice the size of reversed entry i, with reversed entry i + 1
ConcatMatches(i) ==
    LET fr == Reverse(features)
    IN  2 * fr[i][3] = fr[i + 1][3] /\ 2 * fr[i][4] = fr[i + 1][4]

RECURSIVE Pow2(_)
Pow2(n) == IF n = 0 THEN 1 ELSE 2 * Pow2(n - 1)

\* number of max-pool layers in the constructed encoder
PoolCount ==
    Cardinality({q \in UNION {{<<i, j>> : j \in 1..Len(net.encoder[i])} :
                                i \in 1..Len(net.encoder)} :
                   net.encoder[q[1]][q[2]].type = "pool"})

\* C1, as stated: with len(decoder_channels) = len(encoder_channels) - 1, a
\* decoder pass that succeeds has consumed len(decoder_channels) pyramid
\* entries besides the bottleneck and returns output_len channels at the
\* height and width of pyramid entry 0.
C1_Original ==
    (Decoded /\ res.ok /\ NDec = NEnc - 1) =>
        /\ Len(res.used) = NDec
        /\ res.shape[2] = cfg.pred_len
        /\ HW(res.shape) = HW(features[1])

\* C1, amended: a decoder pass that succeeds has consumed
\* min(len(decoder_channels), len(encoder_channels)) pyramid entries, from the
\* one next to the bottleneck towards the finest, and returns output_len
\* channels at the height and width of the last entry it consumed: pyramid
\* entry 1 when len(decoder_channels) = len(encoder_channels) - 1, entry 0
\* only when the decoder list is at least as long as the encoder list.
C1_Amended ==
    (Decoded /\ res.ok) =>
        LET n == Min(NEnc, NDec)
        IN  /\ res.used = [i \in 1..n |-> NEnc - i]
            /\ res.shape[2] = cfg.pred_len
            /\ HW(res.shape) = HW(features[NEnc - n + 1])
            /\ (NDec = NEnc - 1 => HW(res.shape) = HW(features[2]))
            /\ (NDec >= NEnc => HW(res.shape) = HW(features[1]))

C1_Witness ==
    /\ pc = "traj" /\ res.ok /\ NDec = NEnc - 1
    /\ Len(res.used) = NDec
    /\ HW(res.shape) # HW(features[1])

\* C2: the model of get_ynet (encoder 32,32,64,64,64; decoder 64,64,64,32,32;
\* obs_len 8, pred_len 12, no semantic classes, one waypoint) on a 64 x 64
\* input: pred_features raises nothing, pred_goal returns (batch,12,64,64),
\* and pred_traj on the pyramid with one more channel per entry returns
\* (batch,12,64,64).
C2_EndToEnd ==
    /\ cfg.encoder_channels = <<32, 32, 64, 64, 64>>
    /\ cfg.decoder_channels = <<64, 64, 64, 32, 32>>
    /\ cfg.obs_len = 8 /\ cfg.pred_len = 12
    /\ cfg.semantic_classes = 0 /\ cfg.waypoints = 1
    /\ (HasInput /\ HW(x) = <<64, 64>>) =>
        /\ x[2] = 8
        /\ pc # "enc_error"
        /\ pc = "goal" => (res.ok /\ res.shape = <<x[1], 12, 64, 64>>)
        /\ (pc = "traj" /\ cond = 1) => (res.ok /\ res.shape = <<x[1], 12, 64, 64>>)

C2_Witness ==
    /\ pc = "traj" /\ cond = 1 /\ HW(x) = <<64, 64>>
    /\ res.ok /\ res.shape[2] = 12 /\ Len(features) = 6

NotDiv16 == x[3] % 16 # 0 \/ x[4] % 16 # 0

\* the decoder raised at a skip concatenation, the first whose operands differ
RaisedAtFirstMismatch ==
    /\ ~res.ok /\ res.err = "cat_size" /\ res.where = "cat"
    /\ \A k \in 1..(res.at - 1) : ConcatMatches(k)
    /\ ~ConcatMatches(res.at)

\* C3, as stated: on the get_ynet model every input whose height or width is
\* not a multiple of 16 gets through the encoder and makes the decoder raise
\* at the first skip concatenation whose operands differ in size.
C3_Original ==
    (HasInput /\ NotDiv16) =>
        /\ pc # "enc_error"
        /\ Conditioned => RaisedAtFirstMismatch

\* C3, amended: on the get_ynet model an input whose height or width is not
\* a multiple of 16 never yields an output.  When its height and width are
\* both at least 32 the encoder returns and the decoder raises at the first
\* skip concatenation whose operands differ in size; when either is below 32
\* the error is raised earlier, by a max-pool of the encoder whose output
\* would be empty.
C3_Amended ==
    (HasInput /\ NotDiv16) =>
        /\ (pc = "enc_error") = (x[3] < 32 \/ x[4] < 32)
        /\ pc = "enc_error" => err = "pool_size"
        /\ Conditioned => RaisedAtFirstMismatch
        /\ Decoded => ~res.ok

C3_Witness ==
    /\ pc = "goal" /\ NotDiv16
    /\ res.err = "cat_size" /\ res.at = 2 /\ ConcatMatches(1)

\* C4, as stated: a configuration is accepted by the constructor only when
\* len(decoder_channels) = len(encoder_channels) - 1.
C4_Original == pc = "built" => NDec = NEnc - 1

\* C4, amended: the constructor compares no lengths.  It fails, with an
\* IndexError, exactly when encoder_channels or decoder_channels is empty;
\* every other configuration is accepted, and each decoder then holds
\* min(len(encoder_channels), len(decoder_channels)) fusion blocks (the zip
\* drops the rest), len(decoder_channels) upsample convolutions and a
\* predictor that takes decoder_channels[-1] channels.
C4_Amended ==
    pc # "new" =>
        /\ (pc = "ctor_error") = (NEnc = 0 \/ NDec = 0)
        /\ pc = "ctor_error" => err = "IndexError"
        /\ pc = "built" =>
             \A d \in {net.goal_decoder, net.traj_decoder} :
                /\ Len(d.decoder) = Min(NEnc, NDec)
                /\ Len(d.upsample_conv) = NDec
                /\ d.predictor.in = cfg.decoder_channels[NDec]

C4_Witness ==
    /\ pc = "built" /\ NDec > NEnc
    /\ Len(net.goal_decoder.decoder) = NEnc
    /\ Len(net.goal_decoder.upsample_conv) = NDec

\* C5, as stated: constructing with semantic_classes > 0 and no segmentation
\* model ends in an error.
C5_Original ==
    (pc # "new" /\ cfg.semantic_classes > 0 /\ ~cfg.fp) => pc = "ctor_error"

\* C5, amended: constructing with semantic_classes > 0 and no segmentation
\* model raises nothing on that account (it fails only on an empty channel
\* list): it yields a model whose backbone is the identity and whose encoder
\* takes semantic_classes + obs_len channels.
C5_Amended ==
    (pc # "new" /\ cfg.semantic_classes > 0 /\ ~cfg.fp) =>
        /\ (pc = "ctor_error") = (NEnc = 0 \/ NDec = 0)
        /\ pc = "built" =>
            /\ net.semantic_segmentation = "Identity"
            /\ net.encoder[1][1].in = cfg.semantic_classes + cfg.obs_len

C5_Witness ==
    /\ pc = "built" /\ cfg.semantic_classes > 0 /\ ~cfg.fp
    /\ net.semantic_segmentation = "Identity"
    /\ net.encoder[1][1].in > cfg.obs_len

\* C6: the list pred_features returns has len(encoder_channels) + 1 entries;
\* entry 0 has the input's height and width and every later entry half the
\* height and half the width, rounded down, of the entry before it.
C6_Pyramid ==
    Encoded =>
        /\ NEnc >= 1
        /\ Len(features) = NEnc + 1
        /\ HW(features[1]) = HW(x)
        /\ \A i \in 2..Len(features) :
              /\ features[i][3] = features[i - 1][3] \div 2
              /\ features[i][4] = features[i - 1][4] \div 2

C6_Witness ==
    /\ pc = "encoded" /\ NEnc = 2 /\ Len(features) = 3
    /\ x[3] = 5 /\ features[2][3] = 2 /\ features[3][3] = 1

\* the channel holds all of the mass at row i, column j (from 0)
OneHotAt(ch, i, j) ==
    \A r \in 1..Len(ch) : \A c \in 1..Len(ch[r]) :
        ch[r][c] = IF r - 1 = i /\ c - 1 = j THEN MassUnits ELSE 0

\* C7: for a channel that is one-hot at row i, column j, the coordinates
\* returned for that channel are (j, i): x first, in pixel units (the sums
\* are in units of mass, so probability 1 times j is MassUnits * j).
C7_OneHot ==
    pc = "soft" =>
        \A b \in 1..smap.shape[1], c \in 1..smap.shape[2] :
            \A i \in 0..(smap.shape[3] - 1), j \in 0..(smap.shape[4] - 1) :
                OneHotAt(smap.v[b][c], i, j) =>
                    coords.v[b][c] = <<MassUnits * j, MassUnits * i>>

C7_Witness ==
    /\ pc = "soft"
    /\ \E b \in 1..smap.shape[1], c \in 1..smap.shape[2] :
          /\ OneHotAt(smap.v[b][c], 1, 2)
          /\ coords.v[b][c] = <<MassUnits * 2, MassUnits>>

\* C8, as stated: the result has shape (batch, channel, 2), and (batch, 2)
\* when channel = 1.
C8_Original ==
    pc = "soft" =>
        coords.shape = IF smap.shape[2] = 1 THEN <<smap.shape[1], 2>>
                       ELSE <<smap.shape[1], smap.shape[2], 2>>

\* C8, amended: the result has shape (batch, channel, 2) for every batch,
\* channel, height and width, also when channel = 1: the channel axis is
\* kept, and a single channel gives (batch, 1, 2).
C8_Amended ==
    pc = "soft" =>
        /\ coords.shape = <<smap.shape[1], smap.shape[2], 2>>
        /\ Len(coords.v) = smap.shape[1]
        /\ \A b \in 1..Len(coords.v) :
              /\ Len(coords.v[b]) = smap.shape[2]
              /\ \A c \in 1..Len(coords.v[b]) : Len(coords.v[b][c]) = 2

C8_Witness ==
    /\ pc = "soft" /\ smap.shape[2] = 1
    /\ coords.shape = <<smap.shape[1], 1, 2>>

\* every entry of the pyramid the decoder was given carries its encoder
\* stage's channel count (the bottleneck: the last stage's) plus cond
CarriesChannels ==
    \A i \in 1..Len(features) :
        Augment(features, cond)[i][2] = cfg.encoder_channels[Min(i, NEnc)] + cond

\* C9: with len(decoder_channels) = len(encoder_channels) or one less, and a
\* pyramid whose entries carry the encoder's channel counts plus the
\* decoder's conditioning channels, no convolution of the decoder's forward
\* pass is given a tensor with another channel count than it was built for.
C9_Channels ==
    (Conditioned /\ (NDec = NEnc \/ NDec = NEnc - 1) /\ CarriesChannels) =>
        res.err # "conv_channels"

C9_Witness ==
    /\ pc = "traj" /\ cond = cfg.waypoints /\ CarriesChannels
    /\ NEnc = 2 /\ NDec = 2 /\ res.ok /\ Len(res.used) = 2

\* C10: with len(decoder_channels) = len(encoder_channels) and an input whose
\* height and width are multiples of 2^P, P the number of max-pools of the
\* encoder, the encoder returns, every skip concatenation joins tensors of
\* equal height and width, and the decoder's output has the input's height
\* and width.
C10_Multiples ==
    (HasInput /\ NDec = NEnc
       /\ x[3] % Pow2(PoolCount) = 0 /\ x[4] % Pow2(PoolCount) = 0) =>
        /\ pc # "enc_error"
        /\ Decoded => res.err # "cat_size"
        /\ Conditioned =>
            /\ res.ok
            /\ HW(res.shape) = HW(x)
            /\ \A k \in 1..NEnc : ConcatMatches(k)

C10_Witness ==
    /\ pc = "goal" /\ NEnc = 2 /\ NDec = 2 /\ PoolCount = 2
    /\ HW(x) = <<8, 4>> /\ res.ok /\ HW(res.shape) = <<8, 4>>

=============================================================================
